---- MODULE Spec2Model ----
(***************************************************************************)
(* Model of solution/solution.ipynb: a notebook that loads three labelled  *)
(* MRI image sets, binarizes the labels, splits them, wraps them in        *)
(* MRIDataset/DataLoader objects and trains five classifiers in sequence.  *)
(*                                                                         *)
(* Four specifications share the definitions below:                        *)
(*   SpecFn       applies the array functions the notebook calls           *)
(*                (np.clip, train_test_split, random_split, the            *)
(*                transform, the quality filter) to inputs drawn from      *)
(*                bounded sets;                                            *)
(*   SpecTrain    runs one train() call step by step on small             *)
(*                dataloaders;                                             *)
(*   SpecValidate runs a validate_epoch() call step by step on a model     *)
(*                train() has returned, then metrics_callback();           *)
(*   Spec         runs the notebook cell by cell, top to bottom.           *)
(*                                                                         *)
(* utils.py, dataset.py, train.py and convnet.py are imported by the       *)
(* notebook (lines 103-106) but are not part of the source tree; what they *)
(* do is taken from the written specification.                             *)
(***************************************************************************)
EXTENDS Integers, Sequences, FiniteSets, TLC

VARIABLES
    fn, arg, out,                       \* SpecFn: function applied, its input, its result
    pc, call, model, optimizer, loop, metrics, report,  \* SpecTrain: one train() call, then validate_epoch() and metrics_callback()
    cell, ns, files, seen               \* Spec: next notebook cell, kernel namespace, models/ directory, labels given to the loss

fnVars == <<fn, arg, out>>
trVars == <<pc, call, model, optimizer, loop, metrics, report>>
nbVars == <<cell, ns, files, seen>>
vars == <<fn, arg, out, pc, call, model, optimizer, loop, metrics, report, cell, ns, files, seen>>

----------------------------------------------------------------------------
(* Bounds of the model *)

MaxN == 5          \* SpecFn: largest sample count handed to a split
MaxDim == 3        \* SpecFn: largest image height / width
MaxArr == 3        \* SpecFn: longest label array handed to np.clip, most samples handed to the filter
MaxKeep == 2       \* SpecFn: largest number of samples the filter is asked to keep, short of the notebook's
MaxScore == 2      \* SpecFn: scores are the levels 0..MaxScore
MaxTrain == 2      \* SpecTrain: largest training set
MaxVal == 3        \* SpecTrain: largest validation set
MaxBatch == 2      \* SpecTrain: largest batch_size
MaxEpochs == 2     \* SpecTrain: largest n_epochs
MaxSynth == 2      \* Spec: most images in data/SyntheticDataset
MaxReal == 2       \* Spec: most images in data/RealDataset
MaxFinal == 3      \* Spec: most images in data/RealTestDataset

(* Program constants *)

MaxLabel == 3      \* four classes: non / very mild / mild / moderate alzheimer
NChannel == 3      \* Repeat(n_channel=3, ...)
ImgSize == 128     \* the images are 128x128
KeepN == 6000      \* np.argsort(scores)[-6000:]

Labels == 0..MaxLabel

----------------------------------------------------------------------------
(* Helpers *)

Min(a, b) == IF a <= b THEN a ELSE b
Max(a, b) == IF a >= b THEN a ELSE b

Range(s) == {s[i] : i \in 1..Len(s)}

RECURSIVE Perms(_)
(* every ordering of the finite set S, as a sequence *)
Perms(S) ==
    IF S = {} THEN {<<>>}
    ELSE UNION {{<<x>> \o p : p \in Perms(S \ {x})} : x \in S}

SeqsUpTo(S, n) == UNION {[1..k -> S] : k \in 0..n}

(* numpy indexing of an array by an array of 0-based indices: a[idxs] *)
Take(a, idxs) == [k \in 1..Len(idxs) |-> a[idxs[k] + 1]]

Slice(s, from, to) == [k \in 1..(to - from + 1) |-> s[from + k - 1]]

----------------------------------------------------------------------------
(* np.clip(labels, 0, 1): notebook lines 183-185 *)

np_clip_no_upper(a, lo, hi) ==
    [i \in 1..Len(a) |-> IF a[i] < lo THEN lo ELSE a[i]]

np_clip(a, lo, hi) ==
    [i \in 1..Len(a) |-> IF a[i] < lo THEN lo ELSE IF a[i] > hi THEN hi ELSE a[i]]

----------------------------------------------------------------------------
(* train_test_split(images, labels, test_size=0.20, random_state=42):      *)
(* notebook lines 214-219.  sklearn takes n_test = ceil(test_size * n) and *)
(* n_train = n - n_test, refuses an empty train part with ValueError, and  *)
(* cuts one permutation of 0..n-1 into a test slice followed by a train    *)
(* slice.  The permutation is fixed by the seed but not known here, so it  *)
(* is any permutation.                                                     *)

n_test_of(n) == (n + 4) \div 5             \* ceil(0.2 * n)

Ok(v) == [err |-> "none", val |-> v]
Raise(e) == [err |-> e, val |-> <<>>]

train_test_split(n) ==
    LET n_test == n_test_of(n)
        n_train == n - n_test
    IN  IF n_train <= 0
        THEN {Raise("ValueError")}
        ELSE {Ok([train |-> Slice(p, n_test + 1, n), test |-> Slice(p, 1, n_test)])
                : p \in Perms(0..(n - 1))}

----------------------------------------------------------------------------
(* train_len = int(len(adv_val_dataset) * 0.8); val_len = len - train_len: *)
(* notebook lines 562-563                                                  *)

train_len_rounded(n) == (8 * n + 5) \div 10

train_len_of(n) == (8 * n) \div 10          \* int(n * 0.8)

val_len_of(n) == n - train_len_of(n)

(* random_split(dataset, lengths=[train_len, val_len]): notebook lines     *)
(* 572-575.  torch checks that the lengths add up to the dataset length    *)
(* and cuts one random permutation into consecutive Subset index lists.    *)
random_split(n, lengths) ==
    IF lengths[1] + lengths[2] # n
    THEN {Raise("ValueError")}
    ELSE {Ok([train |-> Slice(p, 1, lengths[1]), test |-> Slice(p, lengths[1] + 1, n)])
            : p \in Perms(0..(n - 1))}

----------------------------------------------------------------------------
(* The transform pipeline: notebook lines 229-233.  An array is a record   *)
(* of the image it holds and its shape; the operations change the shape.   *)

(* Unsqueeze(axis=-1): a new trailing axis of size 1 *)
Unsqueeze(x) == [x EXCEPT !.shape = @ \o <<1>>]

(* Repeat(n_channel=3, axis=-1): the last axis replicated n_channel times *)
Repeat(x) == [x EXCEPT !.shape = [@ EXCEPT ![Len(@)] = @ * NChannel]]

(* transforms.ToTensor(): an (H, W, C) array becomes a (C, H, W) tensor;   *)
(* a 2-d array (H, W) is first given one channel                           *)
ToTensor(x) ==
    LET s == IF Len(x.shape) = 2 THEN x.shape \o <<1>> ELSE x.shape
    IN  [x EXCEPT !.shape = <<s[3], s[1], s[2]>> \o Slice(s, 4, Len(s))]

ApplyOp(op, x) ==
    CASE op = "Unsqueeze" -> Unsqueeze(x)
      [] op = "Repeat" -> Repeat(x)
      [] op = "ToTensor" -> ToTensor(x)

transform_tensor_first == <<"ToTensor", "Unsqueeze", "Repeat">>

(* transform = transforms.Compose([Unsqueeze, Repeat, ToTensor]) *)
transform == <<"Unsqueeze", "Repeat", "ToTensor">>

RECURSIVE ComposeTrace(_, _)
(* Compose.__call__: the operations applied first to last; the result     *)
(* after each one                                                          *)
ComposeTrace(ts, x) ==
    IF ts = <<>> THEN <<>>
    ELSE LET y == ApplyOp(Head(ts), x) IN <<y>> \o ComposeTrace(Tail(ts), y)

Compose(ts, x) == IF ts = <<>> THEN x ELSE ComposeTrace(ts, x)[Len(ts)]

----------------------------------------------------------------------------
(* MRIDataset (dataset.py): the image array, the label array and the       *)
(* transform it was constructed from.  No length check at construction.    *)

MRIDataset(images, labels, tf) == [images |-> images, labels |-> labels, transform |-> tf]

(* __len__: the number of images *)
MRIDataset_len(ds) == Len(ds.images)

(* __getitem__(index), index counted from 0: the transformed image and the *)
(* label at that index; an index outside either array is an IndexError     *)
(* (negative indices count from the end, as numpy's do)                    *)
ArrayAt(a, i) ==
    IF 0 <= i /\ i < Len(a) THEN Ok(a[i + 1])
    ELSE IF i < 0 /\ 0 - i <= Len(a) THEN Ok(a[Len(a) + i + 1])
    ELSE Raise("IndexError")

MRIDataset_getitem(ds, i) ==
    LET image == ArrayAt(ds.images, i)
        label == ArrayAt(ds.labels, i)
    IN  IF image.err # "none" THEN Raise(image.err)
        ELSE IF label.err # "none" THEN Raise(label.err)
        ELSE Ok([image |-> Compose(ds.transform, image.val), label |-> label.val])

(* torch.utils.data.Subset, as random_split returns it: a dataset and the  *)
(* list of its indices that make up the subset                             *)
Subset(ds, indices) == [dataset |-> ds, indices |-> indices]

IsSubset(ds) == "indices" \in DOMAIN ds

DatasetLen(ds) == IF IsSubset(ds) THEN Len(ds.indices) ELSE MRIDataset_len(ds)

DatasetGet(ds, i) ==
    IF IsSubset(ds)
    THEN LET at == ArrayAt(ds.indices, i)
         IN  IF at.err # "none" THEN Raise(at.err)
             ELSE MRIDataset_getitem(ds.dataset, at.val)
    ELSE MRIDataset_getitem(ds, i)

----------------------------------------------------------------------------
(* DataLoader(dataset, batch_size=..., shuffle=...): notebook lines        *)
(* 285-313.  drop_last is left at its default, False.                      *)

(* With shuffle=True the loader builds a RandomSampler over the dataset,    *)
(* which refuses an empty one: ValueError, and no loader.                  *)
DataLoader(ds, batch_size, shuffle) ==
    IF shuffle /\ DatasetLen(ds) = 0
    THEN Raise("ValueError")
    ELSE Ok([dataset |-> ds, batch_size |-> batch_size, shuffle |-> shuffle])

(* iter(loader): the sampler's order of the indices 0..len-1, a random     *)
(* permutation when shuffle=True                                           *)
SamplerOrders(loader) ==
    LET n == DatasetLen(loader.dataset)
    IN  IF loader.shuffle THEN Perms(0..(n - 1)) ELSE {[k \in 1..n |-> k - 1]}

(* the iterator stops when no index is left: a last batch smaller than     *)
(* batch_size is still yielded                                             *)
LoaderExhausted(order, batch_size) == order = <<>>

BatchIndices(order, batch_size) == Slice(order, 1, Min(batch_size, Len(order)))

RestOfOrder(order, batch_size) ==
    Slice(order, Min(batch_size, Len(order)) + 1, Len(order))

(* the fetch and collate of one batch: dataset[i] for each index of the    *)
(* batch; the first failing index aborts the fetch                         *)
FetchBatch(ds, idxs) ==
    LET got == [k \in 1..Len(idxs) |-> DatasetGet(ds, idxs[k])]
        bad == {k \in 1..Len(idxs) : got[k].err # "none"}
    IN  IF bad # {}
        THEN Raise(got[CHOOSE k \in bad : \A j \in bad : k <= j].err)
        ELSE Ok([k \in 1..Len(idxs) |-> got[k].val])

(* the number of batches of one pass over the loader *)
NumBatches(loader) ==
    (DatasetLen(loader.dataset) + loader.batch_size - 1) \div loader.batch_size

----------------------------------------------------------------------------
(* The classifier (convnet.py), reduced to its contract: a batch of images *)
(* in, one row of two class scores per image out.  The parameters are      *)
(* identified by the number of optimizer updates applied to them.  The     *)
(* scores stand for what one forward pass puts out for a sample; how they  *)
(* depend on the rest of the batch, or on the dropout and batch-norm mode, *)
(* is not modelled, and no property below compares the scores of two       *)
(* forward passes over the same sample.                                    *)

Logits(params, image) ==
    LET k == (params + image.img.idx) % 2 IN <<1 - k, k>>

ForwardBatch(params, batch) == [k \in 1..Len(batch) |-> Logits(params, batch[k].image)]

(* argmax over the class axis, classes counted from 0 *)
ArgMax(row) == IF row[2] > row[1] THEN 1 ELSE 0

BatchLabels(batch) == [k \in 1..Len(batch) |-> batch[k].label]

(* criterion(output, label), nn.CrossEntropyLoss: reduced to the number of *)
(* samples of the batch whose label does not have the highest score        *)
Criterion(output, labels) ==
    Cardinality({k \in 1..Len(labels) : ArgMax(output[k]) # labels[k]})

----------------------------------------------------------------------------
(* The quality filter: notebook lines 702-706 *)

(* np.argsort(scores): an order of the indices along which the scores do   *)
(* not decrease; equal scores may come in any order                        *)
ArgSorts(scores) ==
    {q \in Perms(0..(Len(scores) - 1)) :
        \A k \in 1..(Len(scores) - 1) : scores[q[k] + 1] <= scores[q[k + 1] + 1]}

FirstN(a, n) == Slice(a, 1, Min(n, Len(a)))

(* a[-n:] *)
LastN(a, n) == Slice(a, Len(a) - Min(n, Len(a)) + 1, Len(a))

(* indices = np.argsort(scores)[-keep:]; synth_images[indices];            *)
(* synth_labels[indices] (keep is 6000 in the notebook): the bindings the  *)
(* cell can make                                                           *)
quality_filter(scores, images, labels, keep) ==
    {[indices |-> LastN(q, keep),
      good_synth_images |-> Take(images, LastN(q, keep)),
      good_synth_labels |-> Take(labels, LastN(q, keep))] : q \in ArgSorts(scores)}

----------------------------------------------------------------------------
(* The other specifications' variables, while a specification does not use *)
(* them                                                                    *)

IdleFn == fn = "idle" /\ arg = <<>> /\ out = <<>>
IdleTrain ==
    /\ pc = "idle" /\ call = <<>> /\ model = <<>> /\ optimizer = <<>>
    /\ loop = <<>> /\ metrics = <<>> /\ report = <<>>
IdleNotebook == cell = "idle" /\ ns = <<>> /\ files = <<>> /\ seen = {}

----------------------------------------------------------------------------
(* SpecFn: the array functions, each applied once to a bounded input *)

RawLabels == {-1} \cup Labels

FnInput(kind, n, shape, arr) == [kind |-> kind, n |-> n, shape |-> shape, arr |-> arr]

(* n samples for the filter: the images 1..n, a label and a score each,    *)
(* and the number to keep                                                  *)
FilterInputs(n) ==
    {[kind |-> "filter", n |-> n, shape |-> <<>>, arr |-> <<>>,
      images |-> [i \in 1..n |-> i], labels |-> l, scores |-> sc, keep |-> k] :
        l \in [1..n -> {0, 1}], sc \in [1..n -> 0..MaxScore], k \in (1..MaxKeep) \cup {KeepN}}

FnInputs ==
    {FnInput("split", n, <<>>, <<>>) : n \in 0..MaxN}
    \cup {FnInput("image", 0, <<h, w>>, <<>>) : h \in 1..MaxDim, w \in 1..MaxDim}
    \cup {FnInput("labels", 0, <<>>, a) : a \in SeqsUpTo(RawLabels, MaxArr)}
    \cup UNION {FilterInputs(n) : n \in 0..MaxArr}

InitFn ==
    /\ fn = "input"
    /\ arg \in FnInputs
    /\ out = Ok(<<>>)
    /\ IdleTrain /\ IdleNotebook

ApplyClip ==
    /\ fn = "input" /\ arg.kind = "labels"
    /\ fn' = "np_clip"
    /\ out' = Ok(np_clip(arg.arr, 0, 1))
    /\ UNCHANGED <<arg, trVars, nbVars>>

ApplyTrainTestSplit ==
    /\ fn = "input" /\ arg.kind = "split"
    /\ fn' = "train_test_split"
    /\ out' \in train_test_split(arg.n)
    /\ UNCHANGED <<arg, trVars, nbVars>>

ApplyRandomSplit ==
    /\ fn = "input" /\ arg.kind = "split"
    /\ fn' = "random_split"
    /\ out' \in random_split(arg.n, <<train_len_of(arg.n), val_len_of(arg.n)>>)
    /\ UNCHANGED <<arg, trVars, nbVars>>

ApplyTransform ==
    /\ fn = "input" /\ arg.kind = "image"
    /\ fn' = "transform"
    /\ out' = Ok(ComposeTrace(transform, [img |-> 0, shape |-> arg.shape]))
    /\ UNCHANGED <<arg, trVars, nbVars>>

ApplyFilter ==
    /\ fn = "input" /\ arg.kind = "filter"
    /\ fn' = "quality_filter"
    /\ \E r \in quality_filter(arg.scores, arg.images, arg.labels, arg.keep) : out' = Ok(r)
    /\ UNCHANGED <<arg, trVars, nbVars>>

NextFn == ApplyClip \/ ApplyTrainTestSplit \/ ApplyRandomSplit \/ ApplyTransform \/ ApplyFilter

SpecFn == InitFn /\ [][NextFn]_vars

----------------------------------------------------------------------------
(* Claims checked under SpecFn *)

SplitDone == fn \in {"train_test_split", "random_split"}

(* the integer nearest to 0.8 * n (0.8 * n is never halfway between two) *)
Round08(n) == CHOOSE k \in 0..n : 10 * k - 8 * n < 5 /\ 8 * n - 10 * k < 5

(* the largest integer not above 0.8 * n *)
Floor08(n) == CHOOSE k \in 0..n : 5 * k <= 4 * n /\ 5 * (k + 1) > 4 * n

IsPartition(r, n) ==
    /\ Range(r.train) \cap Range(r.test) = {}
    /\ Range(r.train) \cup Range(r.test) = 0..(n - 1)
    /\ Cardinality(Range(r.train)) = Len(r.train)
    /\ Cardinality(Range(r.test)) = Len(r.test)

(* C4 as written: every split of N >= 1 samples gives round(0.8 N) train   *)
(* samples and N - round(0.8 N) test samples, the two index sets disjoint  *)
(* and covering 0..N-1.                                                    *)
C4_RoundedSizes ==
    (SplitDone /\ arg.n >= 1) =>
        /\ out.err = "none"
        /\ Len(out.val.train) = Round08(arg.n)
        /\ Len(out.val.test) = arg.n - Round08(arg.n)
        /\ IsPartition(out.val, arg.n)

(* C4 amended: every split of N samples gives floor(0.8 N) train samples   *)
(* and N - floor(0.8 N) test samples, the two index sets disjoint and      *)
(* covering 0..N-1: for every N >= 2 with train_test_split, which raises   *)
(* ValueError for N = 1 (empty train part), and for every N >= 1 with the  *)
(* 80/20 random_split.                                                     *)
C4_FloorSizes ==
    /\ (fn = "train_test_split" /\ arg.n = 1) => out.err = "ValueError"
    /\ (\/ fn = "train_test_split" /\ arg.n >= 2
        \/ fn = "random_split" /\ arg.n >= 1) =>
            /\ out.err = "none"
            /\ Len(out.val.train) = Floor08(arg.n)
            /\ Len(out.val.test) = arg.n - Floor08(arg.n)
            /\ IsPartition(out.val, arg.n)

C4_Witness ==
    /\ fn = "random_split" /\ arg.n = 2
    /\ out.err = "none"
    /\ Len(out.val.train) = 1 /\ Len(out.val.test) = 1

(* C9: the pipeline applies unsqueeze (trailing axis of size 1), then      *)
(* repeat (3 channels on that axis), then the channel-first tensor         *)
(* conversion, and turns every (H, W) input into a (3, H, W) output.       *)
C9_TransformShape ==
    fn = "transform" =>
        LET h == arg.shape[1]
            w == arg.shape[2]
            t == out.val
        IN  /\ Len(t) = 3
            /\ t[1].shape = <<h, w, 1>>
            /\ t[2].shape = <<h, w, 3>>
            /\ t[3].shape = <<3, h, w>>
            /\ Compose(transform, [img |-> 0, shape |-> arg.shape]).shape = <<3, h, w>>

C9_Witness ==
    /\ fn = "transform" /\ arg.shape = <<2, 3>>
    /\ out.val[3].shape = <<3, 2, 3>>

(* C10: clamping a label array to [0, 1] sends every label >= 1 to 1 and   *)
(* label 0 to 0, i.e. each element x to min(max(x, 0), 1), and keeps the   *)
(* length and the order of the array.                                      *)
C10_Binarize ==
    fn = "np_clip" =>
        /\ Len(out.val) = Len(arg.arr)
        /\ \A i \in 1..Len(arg.arr) :
            /\ out.val[i] = Min(Max(arg.arr[i], 0), 1)
            /\ arg.arr[i] >= 1 => out.val[i] = 1
            /\ arg.arr[i] = 0 => out.val[i] = 0

C10_Witness ==
    /\ fn = "np_clip" /\ arg.arr = <<0, 3, 1>>
    /\ out.val = <<0, 1, 1>>

FilterDone == fn = "quality_filter"

(* the sample indices (0-based) the filter kept, and those it dropped *)
Kept == Range(out.val.indices)

Dropped == (0..(Len(arg.scores) - 1)) \ Kept

(* C12: given one score per synthetic sample, the filter keeps exactly     *)
(* min(keep, N) of the N samples (keep = 6000 in the notebook), none       *)
(* twice; every kept sample scores at least as high as every dropped one;  *)
(* and the k-th kept image and the k-th kept label are the image and the   *)
(* label of the same sample.                                               *)
C12_FilterKeepsBest ==
    FilterDone =>
        LET N == Len(arg.scores)
            r == out.val
            kept == Len(r.indices)
        IN  /\ Len(arg.images) = N /\ Len(arg.labels) = N
            /\ kept = Min(arg.keep, N)
            /\ Kept \subseteq 0..(N - 1)
            /\ Cardinality(Kept) = kept
            /\ \A i \in Kept, j \in Dropped : arg.scores[i + 1] >= arg.scores[j + 1]
            /\ Len(r.good_synth_images) = kept /\ Len(r.good_synth_labels) = kept
            /\ \A k \in 1..kept :
                  /\ r.good_synth_images[k] = arg.images[r.indices[k] + 1]
                  /\ r.good_synth_labels[k] = arg.labels[r.indices[k] + 1]

(* three samples scored 1, 0, 2 with labels 1, 0, 0, two to keep: the      *)
(* first and the third are kept, lowest score first                        *)
C12_Witness ==
    /\ FilterDone
    /\ arg.scores = <<1, 0, 2>> /\ arg.labels = <<1, 0, 0>> /\ arg.keep = 2
    /\ out.val.indices = <<0, 2>>
    /\ out.val.good_synth_images = <<1, 3>>
    /\ out.val.good_synth_labels = <<1, 0>>

----------------------------------------------------------------------------
(* train.py, call by call: what one whole call of metrics_callback,        *)
(* validate_epoch and train returns and leaves behind.  SpecTrain below    *)
(* runs the same calls statement by statement.                             *)

accuracy_over_all_pairs(y_true, y_pred) ==
    <<Cardinality({k \in 1..Len(y_true) : y_true[k] = y_pred[k]}),
      Len(y_true) * Len(y_pred)>>

(* the fraction of exact label matches, as <<numerator, denominator>> *)
accuracy_score(y_true, y_pred) ==
    <<Cardinality({k \in 1..Len(y_true) : y_true[k] = y_pred[k]}), Len(y_true)>>

(* per class: how many samples have it, how many were predicted as it, and *)
(* how many of those rightly; precision, recall and F1 are ratios of these *)
classification_report(y_true, y_pred) ==
    [c \in {0, 1} |->
        [support |-> Cardinality({k \in 1..Len(y_true) : y_true[k] = c}),
         predicted |-> Cardinality({k \in 1..Len(y_pred) : y_pred[k] = c}),
         correct |-> Cardinality({k \in 1..Len(y_true) : y_true[k] = c /\ y_pred[k] = c})]]

metrics_callback(m) ==
    [accuracy |-> accuracy_score(m.y_true, m.y_pred),
     report |-> classification_report(m.y_true, m.y_pred)]

(* the samples of a loader's dataset, by index *)
LoaderSamples(loader) ==
    [i \in 1..DatasetLen(loader.dataset) |-> DatasetGet(loader.dataset, i - 1)]

LoaderOk(loader) == \A i \in 1..DatasetLen(loader.dataset) : LoaderSamples(loader)[i].err = "none"

LoaderLabels(loader) ==
    {LoaderSamples(loader)[i].val.label :
        i \in {j \in 1..DatasetLen(loader.dataset) : LoaderSamples(loader)[j].err = "none"}}

(* validate_epoch over the sampler order `order`: the record of the whole  *)
(* pass, or the error of the first batch that cannot be fetched, with the  *)
(* labels of the batches before it                                         *)
validate_epoch(m, loader, order) ==
    LET ds == loader.dataset
        bad == {k \in 1..Len(order) : DatasetGet(ds, order[k]).err # "none"}
        firstBad == CHOOSE k \in bad : \A j \in bad : k <= j
        done == ((firstBad - 1) \div loader.batch_size) * loader.batch_size
        y_true == [k \in 1..Len(order) |-> DatasetGet(ds, order[k]).val.label]
        y_pred == [k \in 1..Len(order) |->
                      ArgMax(Logits(m.params, DatasetGet(ds, order[k]).val.image))]
    IN  IF bad # {}
        THEN [err |-> DatasetGet(ds, order[firstBad]).err,
              labels |-> {DatasetGet(ds, order[k]).val.label : k \in 1..done}]
        ELSE [err |-> "none",
              labels |-> Range(y_true),
              metrics |-> [loss |-> Cardinality({k \in 1..Len(order) : y_true[k] # y_pred[k]}),
                           y_true |-> y_true, y_pred |-> y_pred]]

(* train over n_epochs epochs: one optimizer step per training batch, a    *)
(* validation pass per epoch; a sample that cannot be fetched aborts it    *)
train(m, opt, trainloader, valloader, n_epochs) ==
    LET total == n_epochs * NumBatches(trainloader)
    IN  IF n_epochs = 0
        THEN [err |-> "none", model |-> m, optimizer |-> opt, labels |-> {}]
        ELSE [err |-> IF LoaderOk(trainloader) /\ LoaderOk(valloader)
                      THEN "none" ELSE "IndexError",
              model |-> [m EXCEPT !.params = @ + total, !.mode = "train",
                                  !.grad = IF total > 0 THEN "fresh" ELSE @],
              optimizer |-> [opt EXCEPT !.steps = @ + total],
              labels |-> LoaderLabels(trainloader) \cup LoaderLabels(valloader)]

----------------------------------------------------------------------------
(* SpecTrain: train(model, trainloader, valloader, criterion, optimizer,   *)
(* device, n_epochs), as the notebook calls it at lines 487-496.           *)
(* train.py: one action per statement of the loops.                        *)

Image(src, i) == [img |-> [src |-> src, idx |-> i], shape |-> <<ImgSize, ImgSize>>]

ImageArray(src, n) == [i \in 1..n |-> Image(src, i)]

TrainSet(n) == MRIDataset(ImageArray("train", n), [i \in 1..n |-> i % 2], transform)

ValSet(labels) == MRIDataset(ImageArray("val", Len(labels)), labels, transform)

FreshMetrics == [loss |-> 0, y_true |-> <<>>, y_pred |-> <<>>]

FreshLoop ==
    [epoch |-> 0, order |-> <<>>, batch |-> <<>>, output |-> <<>>, loss |-> 0,
     ret |-> "none", visited |-> <<>>, val_passes |-> 0]

InitTrain ==
    /\ pc = "start"
    /\ \E nt \in 0..MaxTrain, bt \in 1..MaxBatch, bv \in 1..MaxBatch,
          sh \in BOOLEAN, e \in 0..MaxEpochs, labels \in SeqsUpTo({0, 1}, MaxVal) :
            LET tl == DataLoader(TrainSet(nt), bt, TRUE)
                vl == DataLoader(ValSet(labels), bv, sh)
            IN  /\ tl.err = "none" /\ vl.err = "none"
                /\ call = [trainloader |-> tl.val, valloader |-> vl.val, n_epochs |-> e]
    /\ model = [id |-> 1, arch |-> "resnet18", params |-> 0, mode |-> "train", grad |-> "none"]
    /\ optimizer = [model |-> 1, steps |-> 0]
    /\ loop = FreshLoop
    /\ metrics = FreshMetrics
    /\ report = <<>>
    /\ IdleFn /\ IdleNotebook

EpochsLeftButOne(epoch, n_epochs) == epoch + 1 < n_epochs

(* for epoch in range(n_epochs) *)
EpochsLeft(epoch, n_epochs) == epoch < n_epochs

CallTrain ==
    /\ pc = "start"
    /\ pc' = "epoch"
    /\ loop' = FreshLoop
    /\ UNCHANGED <<call, model, optimizer, metrics, report, fnVars, nbVars>>

EpochLoop ==
    /\ pc = "epoch"
    /\ pc' = IF EpochsLeft(loop.epoch, call.n_epochs) THEN "train_mode" ELSE "train_returned"
    /\ UNCHANGED <<call, model, optimizer, loop, metrics, report, fnVars, nbVars>>

(* (1) model.train() *)
SetTrainMode ==
    /\ pc = "train_mode"
    /\ model' = [model EXCEPT !.mode = "train"]
    /\ pc' = "train_iter"
    /\ UNCHANGED <<call, optimizer, loop, metrics, report, fnVars, nbVars>>

(* (2) for batch in trainloader: the iterator is created ... *)
TrainIter ==
    /\ pc = "train_iter"
    /\ \E order \in SamplerOrders(call.trainloader) :
        loop' = [loop EXCEPT !.order = order]
    /\ pc' = "train_next"
    /\ UNCHANGED <<call, model, optimizer, metrics, report, fnVars, nbVars>>

(* ... and asked for the next batch; the loop ends when it has none *)
TrainNext ==
    /\ pc = "train_next"
    /\ LET bs == call.trainloader.batch_size
           got == FetchBatch(call.trainloader.dataset, BatchIndices(loop.order, bs))
       IN  IF LoaderExhausted(loop.order, bs)
           THEN /\ pc' = "val_call"
                /\ loop' = [loop EXCEPT !.order = <<>>, !.batch = <<>>,
                                        !.output = <<>>, !.loss = 0]
           ELSE IF got.err # "none"
           THEN pc' = "error" /\ UNCHANGED loop
           ELSE /\ pc' = "zero_grad"
                /\ loop' = [loop EXCEPT !.batch = got.val,
                                        !.order = RestOfOrder(loop.order, bs)]
    /\ UNCHANGED <<call, model, optimizer, metrics, report, fnVars, nbVars>>

ZeroGrad ==
    /\ pc = "zero_grad"
    /\ model' = [model EXCEPT !.grad = "zero"]
    /\ pc' = "forward"
    /\ UNCHANGED <<call, optimizer, loop, metrics, report, fnVars, nbVars>>

ForwardPass ==
    /\ pc = "forward"
    /\ loop' = [loop EXCEPT !.output = ForwardBatch(model.params, loop.batch)]
    /\ pc' = "loss"
    /\ UNCHANGED <<call, model, optimizer, metrics, report, fnVars, nbVars>>

ComputeLoss ==
    /\ pc = "loss"
    /\ loop' = [loop EXCEPT !.loss = Criterion(loop.output, BatchLabels(loop.batch))]
    /\ pc' = "backward"
    /\ UNCHANGED <<call, model, optimizer, metrics, report, fnVars, nbVars>>

Backward ==
    /\ pc = "backward"
    /\ model' = [model EXCEPT !.grad = "fresh"]
    /\ pc' = "step"
    /\ UNCHANGED <<call, optimizer, loop, metrics, report, fnVars, nbVars>>

OptimizerStep ==
    /\ pc = "step"
    /\ model' = [model EXCEPT !.params = @ + 1]
    /\ optimizer' = [optimizer EXCEPT !.steps = @ + 1]
    /\ pc' = "train_next"
    /\ UNCHANGED <<call, loop, metrics, report, fnVars, nbVars>>

(* (3) validate_epoch(model, valloader, criterion, device), from train *)
ValidateInTrain ==
    /\ pc = "val_call"
    /\ metrics' = FreshMetrics
    /\ \E order \in SamplerOrders(call.valloader) :
        loop' = [loop EXCEPT !.order = order, !.ret = "train", !.visited = <<>>]
    /\ pc' = "val_next"
    /\ UNCHANGED <<call, model, optimizer, report, fnVars, nbVars>>

(* the dataloader of the running validate_epoch call: train() passes its   *)
(* valloader, the notebook's own call passes its dataloader argument       *)
CurrentLoader == IF loop.ret = "train" THEN call.valloader ELSE call.dataloader

(* validate_epoch: the next batch of the dataloader, or the return *)
ValNext ==
    /\ pc = "val_next"
    /\ LET bs == CurrentLoader.batch_size
           idxs == BatchIndices(loop.order, bs)
           got == FetchBatch(CurrentLoader.dataset, idxs)
       IN  IF LoaderExhausted(loop.order, bs)
           THEN /\ pc' = IF loop.ret = "train" THEN "epoch_end" ELSE "val_returned"
                /\ loop' = [loop EXCEPT !.order = <<>>, !.batch = <<>>,
                                        !.output = <<>>, !.loss = 0]
           ELSE IF got.err # "none"
           THEN pc' = "error" /\ UNCHANGED loop
           ELSE /\ pc' = "val_batch"
                /\ loop' = [loop EXCEPT !.batch = got.val,
                                        !.order = RestOfOrder(loop.order, bs),
                                        !.visited = @ \o idxs]
    /\ UNCHANGED <<call, model, optimizer, metrics, report, fnVars, nbVars>>

(* the body of the loop, under torch.no_grad(): the forward pass, the     *)
(* loss, and the loss, the labels and the argmax of the output added to    *)
(* the record                                                              *)
ValBatch ==
    /\ pc = "val_batch"
    /\ LET output == ForwardBatch(model.params, loop.batch)
           loss == Criterion(output, BatchLabels(loop.batch))
           rec == [loss |-> metrics.loss + loss,
                   y_true |-> metrics.y_true \o BatchLabels(loop.batch),
                   y_pred |-> metrics.y_pred \o
                       [k \in 1..Len(output) |-> ArgMax(output[k])]]
       IN  /\ loop' = [loop EXCEPT !.output = output, !.loss = loss]
           /\ metrics' = rec
    /\ pc' = "val_next"
    /\ UNCHANGED <<call, model, optimizer, report, fnVars, nbVars>>

(* (4) the epoch's record is reported if verbose, and dropped; the epoch  *)
(* is over                                                                 *)
EpochEnd ==
    /\ pc = "epoch_end"
    /\ loop' = [loop EXCEPT !.epoch = @ + 1, !.val_passes = @ + 1, !.visited = <<>>]
    /\ metrics' = FreshMetrics
    /\ pc' = "epoch"
    /\ UNCHANGED <<call, model, optimizer, report, fnVars, nbVars>>

(* metrics = validate_epoch(model, dataloader, criterion, device): lines 505-510 *)
CallValidate ==
    /\ pc = "train_returned"
    /\ metrics' = FreshMetrics
    /\ \E order \in SamplerOrders(call.dataloader) :
        loop' = [loop EXCEPT !.order = order, !.ret = "top", !.visited = <<>>]
    /\ pc' = "val_next"
    /\ UNCHANGED <<call, model, optimizer, report, fnVars, nbVars>>

(* accuracy, report = metrics_callback(metrics=metrics): line 511 *)
CallMetricsCallback ==
    /\ pc = "val_returned"
    /\ report' = metrics_callback(metrics)
    /\ pc' = "done"
    /\ UNCHANGED <<call, model, optimizer, loop, metrics, fnVars, nbVars>>

NextTrain ==
    \/ CallTrain \/ EpochLoop \/ SetTrainMode \/ TrainIter \/ TrainNext
    \/ ZeroGrad \/ ForwardPass \/ ComputeLoss \/ Backward \/ OptimizerStep
    \/ ValidateInTrain \/ ValNext \/ ValBatch
    \/ EpochEnd

SpecTrain == InitTrain /\ [][NextTrain]_vars

----------------------------------------------------------------------------
(* SpecValidate: metrics = validate_epoch(model, dataloader, criterion,    *)
(* device) and metrics_callback(metrics), lines 505-511, on a model that   *)
(* train() has returned after no epoch or one epoch.  The dataloader is    *)
(* one of the kinds the notebook builds (lines 285-313): shuffled or not,  *)
(* batches of one or more, over a dataset whose images and labels come     *)
(* from two arrays, as real_final_dataset's do (lines 269-273).            *)

FinalSet(n, labels) == MRIDataset(ImageArray("final", n), labels, transform)

InitValidate ==
    /\ pc = "train_returned"
    /\ \E n \in 0..MaxVal, labels \in SeqsUpTo({0, 1}, MaxVal),
          b \in 1..MaxBatch, sh \in BOOLEAN :
            LET dl == DataLoader(FinalSet(n, labels), b, sh)
            IN  dl.err = "none" /\ call = [dataloader |-> dl.val]
    /\ \E e \in {0, 1} :
            LET tl == DataLoader(TrainSet(MaxTrain), MaxBatch, TRUE).val
                r == train([id |-> 1, arch |-> "resnet18", params |-> 0, mode |-> "train", grad |-> "none"],
                           [model |-> 1, steps |-> 0], tl, tl, e)
            IN  model = r.model /\ optimizer = r.optimizer
    /\ loop = FreshLoop
    /\ metrics = FreshMetrics
    /\ report = <<>>
    /\ IdleFn /\ IdleNotebook

NextValidate == CallValidate \/ ValNext \/ ValBatch \/ CallMetricsCallback

SpecValidate == InitValidate /\ [][NextValidate]_vars

----------------------------------------------------------------------------
(* Claims checked under SpecTrain *)

ValidateReturnedTop == pc = "val_returned"

(* the statement-by-statement run and the whole-call operators agree *)
CallsAgree ==
    /\ pc = "train_returned" =>
        LET r == train([id |-> 1, arch |-> "resnet18", params |-> 0, mode |-> "train", grad |-> "none"],
                       [model |-> 1, steps |-> 0],
                       call.trainloader, call.valloader, call.n_epochs)
        IN  r.err = "none" /\ model = r.model /\ optimizer = r.optimizer

(* the same for validate_epoch and metrics_callback, under SpecValidate *)
ValidateCallsAgree ==
    /\ ValidateReturnedTop =>
        LET v == validate_epoch(model, call.dataloader, loop.visited)
        IN  v.err = "none" /\ metrics = v.metrics
    /\ pc = "error" => ~LoaderOk(call.dataloader)
    /\ pc = "done" => report = metrics_callback(metrics)

TrainBatchSteps == {"zero_grad", "forward", "loss", "backward", "step"}

ValSteps == {"val_next", "val_batch"}

ValidatingInTrain == pc = "val_call" \/ pc = "epoch_end" \/ (pc \in ValSteps /\ loop.ret = "train")

(* C1: train() runs exactly n_epochs epochs; in each the model is put in   *)
(* training mode, every training batch goes through zero_grad, forward,    *)
(* loss, backward and exactly one optimizer step in that order, and one    *)
(* validation pass follows the last training batch and updates nothing.    *)
C1_TrainLoop ==
    LET nb == NumBatches(call.trainloader)
    IN  /\ pc \in TrainBatchSteps =>
            /\ model.mode = "train"
            /\ loop.epoch < call.n_epochs
            /\ loop.val_passes = loop.epoch
            /\ loop.epoch * nb <= optimizer.steps
            /\ optimizer.steps < (loop.epoch + 1) * nb
        /\ pc \in {"forward", "loss"} => model.grad = "zero"
        /\ pc \in {"loss", "backward", "step"} =>
            loop.output = ForwardBatch(model.params, loop.batch)
        /\ pc \in {"backward", "step"} =>
            loop.loss = Criterion(loop.output, BatchLabels(loop.batch))
        /\ pc = "step" => model.grad = "fresh"
        /\ ValidatingInTrain =>
            /\ loop.val_passes = loop.epoch
            /\ optimizer.steps = (loop.epoch + 1) * nb
        /\ model.params = optimizer.steps
        /\ pc = "train_returned" =>
            /\ loop.epoch = call.n_epochs
            /\ loop.val_passes = call.n_epochs
            /\ optimizer.steps = call.n_epochs * nb

C1_Witness ==
    /\ pc = "train_returned"
    /\ call.n_epochs = 2
    /\ DatasetLen(call.trainloader.dataset) = 2 /\ call.trainloader.batch_size = 1
    /\ optimizer.steps = 4
    /\ loop.val_passes = 2

----------------------------------------------------------------------------
(* Claims checked under SpecValidate *)

ValidateReturned == pc = "val_returned"

(* the record holds one (true label, predicted label) pair per sample of   *)
(* the dataloader's dataset, each sample visited once                      *)
OnePairPerSample ==
        LET ds == call.dataloader.dataset
            n == DatasetLen(ds)
        IN  /\ Len(loop.visited) = n
            /\ \A i \in 0..(n - 1) :
                Cardinality({k \in 1..Len(loop.visited) : loop.visited[k] = i}) = 1
            /\ Len(metrics.y_true) = n
            /\ Len(metrics.y_pred) = n
            /\ \A k \in 1..n :
                /\ metrics.y_true[k] = ds.labels[loop.visited[k] + 1]
                /\ metrics.y_pred[k] =
                    ArgMax(Logits(model.params,
                                  Compose(ds.transform, ds.images[loop.visited[k] + 1])))

(* C2: validate_epoch visits every sample of the dataloader's dataset once, *)
(* whatever the dataset size and the batch size: it does not stop before   *)
(* the last sample, and the record it returns holds one (true label,       *)
(* predicted label) pair per sample.                                       *)
C2_ValidateVisitsAll ==
    /\ pc # "error"
    /\ ValidateReturned => OnePairPerSample

(* the same for the calls that return: they are those on a dataset with a  *)
(* label for every image                                                   *)
ReturnedVisitsAll ==
    /\ pc = "error" => Len(call.dataloader.dataset.labels) < Len(call.dataloader.dataset.images)
    /\ ValidateReturned => OnePairPerSample

RECURSIVE Matches(_, _)
(* the number of positions at which two label lists of one length agree *)
Matches(a, b) ==
    IF a = <<>> \/ b = <<>> THEN 0
    ELSE (IF Head(a) = Head(b) THEN 1 ELSE 0) + Matches(Tail(a), Tail(b))

(* C5: on a record of at least one sample, the accuracy of                 *)
(* metrics_callback is (samples whose prediction equals the true label) /  *)
(* (samples in the record), a value in [0, 1].                             *)
C5_Accuracy ==
    (pc = "done" /\ Len(metrics.y_true) >= 1) =>
        /\ report.accuracy[2] > 0
        /\ report.accuracy[1] * Len(metrics.y_true)
            = Matches(metrics.y_true, metrics.y_pred) * report.accuracy[2]
        /\ 0 <= report.accuracy[1]
        /\ report.accuracy[1] <= report.accuracy[2]

C5_Witness ==
    /\ pc = "done"
    /\ Len(metrics.y_true) = 3
    /\ report.accuracy = <<2, 3>>

----------------------------------------------------------------------------
(* Spec: the notebook, one action per code cell that changes the kernel's  *)
(* state, run top to bottom.  A cell that raises stops the run.            *)

(* the namespace f with the names of the record r bound to r's values *)
Bind(f, r) ==
    [n \in DOMAIN f \cup DOMAIN r |-> IF n \in DOMAIN r THEN r[n] ELSE f[n]]

(* a file written: whatever the path held is replaced *)
WriteFile(fs, path, content) ==
    [q \in DOMAIN fs \cup {path} |-> IF q = path THEN content ELSE fs[q]]

LabelArrays(n) == UNION {[1..k -> Labels] : k \in 1..n}

StaleFile == [state_dict |-> [id |-> 0, arch |-> "ConvDropoutNet", params |-> 0]]

(* before the first cell: nothing is bound; models/ is empty or holds the  *)
(* files of an earlier run                                                 *)
Init ==
    /\ cell = "load"
    /\ ns = <<>>
    /\ files \in {<<>>,
                  [q \in {"models/synthetic_model.pth", "models/real_model.pth"} |-> StaleFile]}
    /\ seen = {}
    /\ IdleFn /\ IdleTrain

(* lines 142-144: load_images returns the images of a directory and one    *)
(* integer class label per image                                           *)
LoadCell ==
    /\ cell = "load"
    /\ \E sl \in LabelArrays(MaxSynth), rl \in LabelArrays(MaxReal), fl \in LabelArrays(MaxFinal) :
        ns' = Bind(ns, [synth_images |-> ImageArray("synth", Len(sl)), synth_labels |-> sl,
                        real_images |-> ImageArray("real", Len(rl)), real_labels |-> rl,
                        real_final_images |-> ImageArray("final", Len(fl)),
                        real_final_labels |-> fl])
    /\ cell' = "clip"
    /\ UNCHANGED <<files, seen, fnVars, trVars>>

ClipCellSyntheticOnly ==
    /\ cell = "clip"
    /\ ns' = Bind(ns, [synth_labels |-> np_clip(ns.synth_labels, 0, 1)])
    /\ cell' = "split"
    /\ UNCHANGED <<files, seen, fnVars, trVars>>

(* lines 183-185 *)
ClipCell ==
    /\ cell = "clip"
    /\ ns' = Bind(ns, [synth_labels |-> np_clip(ns.synth_labels, 0, 1),
                       real_labels |-> np_clip(ns.real_labels, 0, 1),
                       real_final_labels |-> np_clip(ns.real_final_labels, 0, 1)])
    /\ cell' = "split"
    /\ UNCHANGED <<files, seen, fnVars, trVars>>

(* lines 214-219: the second split does not run when the first raises *)
SplitCell ==
    /\ cell = "split"
    /\ \E a \in train_test_split(Len(ns.synth_images)),
          b \in train_test_split(Len(ns.real_images)) :
        LET afterSynth ==
                Bind(ns, [synth_train_img |-> Take(ns.synth_images, a.val.train),
                          synth_test_img |-> Take(ns.synth_images, a.val.test),
                          synth_train_label |-> Take(ns.synth_labels, a.val.train),
                          synth_test_label |-> Take(ns.synth_labels, a.val.test)])
        IN  IF a.err # "none"
            THEN cell' = "error" /\ UNCHANGED ns
            ELSE IF b.err # "none"
            THEN cell' = "error" /\ ns' = afterSynth
            ELSE /\ cell' = "transform"
                 /\ ns' = Bind(afterSynth,
                               [real_train_img |-> Take(ns.real_images, b.val.train),
                                real_test_img |-> Take(ns.real_images, b.val.test),
                                real_train_label |-> Take(ns.real_labels, b.val.train),
                                real_test_label |-> Take(ns.real_labels, b.val.test)])
    /\ UNCHANGED <<files, seen, fnVars, trVars>>

(* lines 229-233 *)
TransformCell ==
    /\ cell = "transform"
    /\ ns' = Bind(ns, [transform |-> transform])
    /\ cell' = "datasets"
    /\ UNCHANGED <<files, seen, fnVars, trVars>>

(* lines 269-273 *)
real_final_dataset(env) ==
    MRIDataset(env.real_final_images, env.real_labels, env.transform)

(* lines 245-273 *)
DatasetsCell ==
    /\ cell = "datasets"
    /\ ns' = Bind(ns,
        [synth_train_dataset |-> MRIDataset(ns.synth_train_img, ns.synth_train_label, ns.transform),
         synth_test_dataset |-> MRIDataset(ns.synth_test_img, ns.synth_test_label, ns.transform),
         real_train_dataset |-> MRIDataset(ns.real_train_img, ns.real_train_label, ns.transform),
         real_test_dataset |-> MRIDataset(ns.real_test_img, ns.real_test_label, ns.transform),
         real_final_dataset |-> real_final_dataset(ns)])
    /\ cell' = "loaders"
    /\ UNCHANGED <<files, seen, fnVars, trVars>>

(* lines 285-313 *)
LoadersCell ==
    /\ cell = "loaders"
    /\ LET synth_train == DataLoader(ns.synth_train_dataset, 64, TRUE)
           synth_test == DataLoader(ns.synth_test_dataset, 64, FALSE)
           real_train == DataLoader(ns.real_train_dataset, 64, TRUE)
           real_test == DataLoader(ns.real_test_dataset, 64, FALSE)
           real_final == DataLoader(ns.real_final_dataset, 1, FALSE)
           afterSynth == Bind(ns, [synth_train_loader |-> synth_train.val,
                                   synth_test_loader |-> synth_test.val])
       IN  IF synth_train.err # "none"
           THEN cell' = "error" /\ UNCHANGED ns
           ELSE IF real_train.err # "none"
           THEN cell' = "error" /\ ns' = afterSynth
           ELSE /\ cell' = "model1"
                /\ ns' = Bind(afterSynth, [real_train_loader |-> real_train.val,
                                           real_test_loader |-> real_test.val,
                                           real_final_loader |-> real_final.val])
    /\ UNCHANGED <<files, seen, fnVars, trVars>>

(* model = ConvDropoutNet(...).to(device) / make_resnet18(...).to(device): *)
(* a new module, in training mode, its parameters not yet updated          *)
MakeModel(c, id, arch, next) ==
    /\ cell = c
    /\ ns' = Bind(ns, [model |-> [id |-> id, arch |-> arch, params |-> 0,
                                  mode |-> "train", grad |-> "none"]])
    /\ cell' = next
    /\ UNCHANGED <<files, seen, fnVars, trVars>>

(* criterion = nn.CrossEntropyLoss(); optimizer = optim.Adam(model.parameters(), lr=1e-3) *)
MakeOptimizer(c, next) ==
    /\ cell = c
    /\ ns' = Bind(ns, [criterion |-> "CrossEntropyLoss",
                       optimizer |-> [model |-> ns.model.id, steps |-> 0]])
    /\ cell' = next
    /\ UNCHANGED <<files, seen, fnVars, trVars>>

(* train(model=model, trainloader=..., valloader=..., criterion=criterion, *)
(* optimizer=optimizer, device=device, n_epochs=...): the whole call.  An  *)
(* aborted call has made some of its optimizer steps.                      *)
TrainCell(c, trainloader, valloader, n_epochs, next) ==
    /\ cell = c
    /\ LET r == train(ns.model, ns.optimizer, ns[trainloader], ns[valloader], n_epochs)
       IN  /\ seen' = seen \cup r.labels
           /\ IF r.err = "none"
              THEN /\ ns' = Bind(ns, [model |-> r.model, optimizer |-> r.optimizer])
                   /\ cell' = next
              ELSE /\ \E k \in 0..(r.optimizer.steps - ns.optimizer.steps) :
                        ns' = Bind(ns, [model |-> [r.model EXCEPT !.params = ns.model.params + k],
                                        optimizer |-> [r.optimizer EXCEPT
                                                          !.steps = ns.optimizer.steps + k]])
                   /\ cell' = "error"
    /\ UNCHANGED <<files, fnVars, trVars>>

state_dict_with_optimizer(env) ==
    [state_dict |-> [id |-> env.model.id, arch |-> env.model.arch, params |-> env.model.params],
     optimizer |-> env.optimizer]

(* model.state_dict(), as torch.save writes it: the parameter tensors of   *)
(* the model, nothing else                                                 *)
state_dict(env) ==
    [state_dict |-> [id |-> env.model.id, arch |-> env.model.arch, params |-> env.model.params]]

(* torch.save(model.state_dict(), path): lines 380 and 443 *)
SaveCell(c, path, next) ==
    /\ cell = c
    /\ files' = WriteFile(files, path, state_dict(ns))
    /\ cell' = next
    /\ UNCHANGED <<ns, seen, fnVars, trVars>>

(* metrics = validate_epoch(model, real_final_loader, criterion, device);  *)
(* accuracy, report = metrics_callback(metrics): lines 505-511, 803-809    *)
ValidateCell(c, next) ==
    /\ cell = c
    /\ \E order \in SamplerOrders(ns.real_final_loader) :
        LET r == validate_epoch(ns.model, ns.real_final_loader, order)
        IN  /\ seen' = seen \cup r.labels
            /\ IF r.err = "none"
               THEN /\ ns' = Bind(ns, [metrics |-> r.metrics,
                                       accuracy |-> metrics_callback(r.metrics).accuracy,
                                       report |-> metrics_callback(r.metrics).report])
                    /\ cell' = next
               ELSE cell' = "error" /\ UNCHANGED ns
    /\ UNCHANGED <<files, fnVars, trVars>>

(* lines 539-540: synthetic images get label 0, real images label 1 *)
ConcatCell ==
    /\ cell = "concat"
    /\ ns' = Bind(ns,
        [all_images |-> ns.synth_images \o ns.real_images,
         all_labels |-> [k \in 1..Len(ns.synth_images) |-> 0]
                        \o [k \in 1..Len(ns.real_images) |-> 1]])
    /\ cell' = "adv_dataset"
    /\ UNCHANGED <<files, seen, fnVars, trVars>>

(* lines 549-553 *)
AdvDatasetCell ==
    /\ cell = "adv_dataset"
    /\ ns' = Bind(ns, [adv_val_dataset |-> MRIDataset(ns.all_images, ns.all_labels, ns.transform)])
    /\ cell' = "lengths"
    /\ UNCHANGED <<files, seen, fnVars, trVars>>

(* lines 562-563 *)
LengthsCell ==
    /\ cell = "lengths"
    /\ ns' = Bind(ns, [train_len |-> train_len_of(DatasetLen(ns.adv_val_dataset)),
                       val_len |-> val_len_of(DatasetLen(ns.adv_val_dataset))])
    /\ cell' = "random_split"
    /\ UNCHANGED <<files, seen, fnVars, trVars>>

(* lines 572-575 *)
RandomSplitCell ==
    /\ cell = "random_split"
    /\ \E r \in random_split(DatasetLen(ns.adv_val_dataset), <<ns.train_len, ns.val_len>>) :
        IF r.err # "none"
        THEN cell' = "error" /\ UNCHANGED ns
        ELSE /\ ns' = Bind(ns,
                    [adv_val_train_dataset |-> Subset(ns.adv_val_dataset, r.val.train),
                     adv_val_test_dataset |-> Subset(ns.adv_val_dataset, r.val.test)])
             /\ cell' = "adv_loaders"
    /\ UNCHANGED <<files, seen, fnVars, trVars>>

(* lines 584-593 *)
AdvLoadersCell ==
    /\ cell = "adv_loaders"
    /\ LET adv_train == DataLoader(ns.adv_val_train_dataset, 64, TRUE)
           adv_test == DataLoader(ns.adv_val_test_dataset, 64, FALSE)
       IN  IF adv_train.err # "none"
           THEN cell' = "error" /\ UNCHANGED ns
           ELSE /\ cell' = "model4"
                /\ ns' = Bind(ns, [adv_val_train_loader |-> adv_train.val,
                                   adv_val_test_loader |-> adv_test.val])
    /\ UNCHANGED <<files, seen, fnVars, trVars>>

(* lines 659-668 *)
FilterDatasetsCell ==
    /\ cell = "filter_datasets"
    /\ ns' = Bind(ns, [synth_dataset |-> MRIDataset(ns.synth_images, ns.synth_labels, ns.transform),
                       real_dataset |-> MRIDataset(ns.real_images, ns.real_labels, ns.transform)])
    /\ cell' = "scores"
    /\ UNCHANGED <<files, seen, fnVars, trVars>>

(* for img, _ in dataset: dataset[0], dataset[1], ... until one raises     *)
(* IndexError; the number of samples the loop sees                         *)
IterLen(ds) ==
    CHOOSE n \in 0..DatasetLen(ds) :
        /\ DatasetGet(ds, n).err = "IndexError"
        /\ \A i \in 0..(n - 1) : DatasetGet(ds, i).err = "none"

(* torch.softmax(model(img), dim=1)[0][1]: the probability of class 1,     *)
(* which grows with the margin of the class-1 score over the class-0 score *)
Score(params, image) == LET l == Logits(params, image) IN l[2] - l[1] + 1

(* lines 678-683 *)
ScoresCell ==
    /\ cell = "scores"
    /\ ns' = Bind(ns, [scores |-> [i \in 1..IterLen(ns.synth_dataset) |->
                            Score(ns.model.params, DatasetGet(ns.synth_dataset, i - 1).val.image)]])
    /\ cell' = "filter"
    /\ UNCHANGED <<files, seen, fnVars, trVars>>

(* lines 703-706 *)
FilterCell ==
    /\ cell = "filter"
    /\ \E r \in quality_filter(ns.scores, ns.synth_images, ns.synth_labels, KeepN) :
        ns' = Bind(ns, r)
    /\ cell' = "good_dataset"
    /\ UNCHANGED <<files, seen, fnVars, trVars>>

(* lines 724-728 *)
GoodDatasetCell ==
    /\ cell = "good_dataset"
    /\ ns' = Bind(ns, [good_synth_dataset |->
                          MRIDataset(ns.good_synth_images, ns.good_synth_labels, ns.transform)])
    /\ cell' = "good_loader"
    /\ UNCHANGED <<files, seen, fnVars, trVars>>

(* lines 737-741 *)
GoodLoaderCell ==
    /\ cell = "good_loader"
    /\ LET good == DataLoader(ns.good_synth_dataset, 64, TRUE)
       IN  IF good.err # "none"
           THEN cell' = "error" /\ UNCHANGED ns
           ELSE cell' = "model5" /\ ns' = Bind(ns, [good_synth_loader |-> good.val])
    /\ UNCHANGED <<files, seen, fnVars, trVars>>

Next ==
    \/ LoadCell \/ ClipCell \/ SplitCell \/ TransformCell \/ DatasetsCell \/ LoadersCell
    \/ MakeModel("model1", 1, "ConvDropoutNet", "optim1")
    \/ MakeOptimizer("optim1", "train1")
    \/ TrainCell("train1", "synth_train_loader", "synth_test_loader", 10, "save1")
    \/ SaveCell("save1", "models/synthetic_model.pth", "model2")
    \/ MakeModel("model2", 2, "resnet18", "optim2")
    \/ MakeOptimizer("optim2", "train2")
    \/ TrainCell("train2", "real_train_loader", "real_test_loader", 10, "save2")
    \/ SaveCell("save2", "models/real_model.pth", "model3")
    \/ MakeModel("model3", 3, "resnet18", "optim3")
    \/ MakeOptimizer("optim3", "train3")
    \/ TrainCell("train3", "synth_train_loader", "real_train_loader", 5, "validate3")
    \/ ValidateCell("validate3", "concat")
    \/ ConcatCell \/ AdvDatasetCell \/ LengthsCell \/ RandomSplitCell \/ AdvLoadersCell
    \/ MakeModel("model4", 4, "ConvDropoutNet", "optim4")
    \/ MakeOptimizer("optim4", "train4")
    \/ TrainCell("train4", "adv_val_train_loader", "adv_val_test_loader", 2, "filter_datasets")
    \/ FilterDatasetsCell \/ ScoresCell \/ FilterCell \/ GoodDatasetCell \/ GoodLoaderCell
    \/ MakeModel("model5", 5, "resnet18", "optim5")
    \/ MakeOptimizer("optim5", "train5")
    \/ TrainCell("train5", "good_synth_loader", "real_train_loader", 5, "validate5")
    \/ ValidateCell("validate5", "done")

Spec == Init /\ [][Next]_vars

----------------------------------------------------------------------------
(* Claims checked under Spec *)

ClassDatasetNames ==
    {"synth_train_dataset", "synth_test_dataset", "real_train_dataset", "real_test_dataset",
     "real_final_dataset", "synth_dataset", "real_dataset", "good_synth_dataset"}

DatasetNames == ClassDatasetNames \cup {"adv_val_dataset"}

(* the class label loaded, and binarized, for an image *)
LoadedLabel(x) ==
    CASE x.img.src = "synth" -> ns.synth_labels[x.img.idx]
      [] x.img.src = "real" -> ns.real_labels[x.img.idx]
      [] x.img.src = "final" -> ns.real_final_labels[x.img.idx]

(* the adversarial label of an image: 0 synthetic, 1 real *)
AdversarialLabel(x) == IF x.img.src = "synth" THEN 0 ELSE 1

Paired(name) ==
    LET ds == ns[name]
    IN  /\ Len(ds.images) = Len(ds.labels)
        /\ \A i \in 1..Len(ds.images) :
            ds.labels[i] = IF name = "adv_val_dataset"
                           THEN AdversarialLabel(ds.images[i])
                           ELSE LoadedLabel(ds.images[i])

(* C3: every Dataset the notebook constructs has as many labels as images, *)
(* from the same loaded source, and label i is the label of image i.       *)
C3_LabelsPaired == \A name \in DatasetNames \cap DOMAIN ns : Paired(name)

(* C6: for every Dataset, length() is the number of input images, get(i)   *)
(* returns (transformed image i, label i) for 0 <= i < length(), and       *)
(* get(i) fails with IndexError for i >= length(), so that plain iteration *)
(* stops after exactly length() samples.                                   *)
C6_DatasetAccess ==
    \A name \in DatasetNames \cap DOMAIN ns :
        LET ds == ns[name]
            n == DatasetLen(ds)
        IN  /\ n = Len(ds.images)
            /\ \A i \in 0..(n - 1) :
                /\ DatasetGet(ds, i).err = "none"
                /\ DatasetGet(ds, i).val.image = Compose(transform, ds.images[i + 1])
                /\ DatasetGet(ds, i).val.label = ds.labels[i + 1]
            /\ \A i \in n..(n + 1) : DatasetGet(ds, i).err = "IndexError"
            /\ IterLen(ds) = n

ParamsOf(m) == [state_dict |-> [id |-> m.id, arch |-> m.arch, params |-> m.params]]

ModelRebound == "model" \in DOMAIN ns /\ ns'.model.id # ns.model.id

SavedTrained(m) == m.params > 0 /\ \E q \in DOMAIN files : files[q] = ParamsOf(m)

(* a step that changes models/ writes the parameters of the current model, *)
(* and only them, over whatever the path held                              *)
SaveWritesParamsOnly ==
    files' # files =>
        \E q \in DOMAIN files' :
            /\ files'[q] = ParamsOf(ns.model)
            /\ DOMAIN files' = DOMAIN files \cup {q}
            /\ \A o \in DOMAIN files \ {q} : files'[o] = files[o]

(* C7 as written: the trained model of each of the five experiments is     *)
(* saved to a file before the model variable is rebound; each save writes  *)
(* only the parameter tensors and replaces the earlier content of the path.*)
C7_EveryModelSaved ==
    [][(ModelRebound => SavedTrained(ns.model)) /\ SaveWritesParamsOnly]_vars

ModelsPaths == {"models/synthetic_model.pth", "models/real_model.pth"}

(* C7 amended: the trained models of the synthetic-only and the real-only  *)
(* experiment are saved (models/synthetic_model.pth, models/real_model.pth)*)
(* before the model variable is rebound, each save writing only the        *)
(* parameter tensors and replacing the earlier content of its path; the    *)
(* models of the synthetic-to-real, the adversarial validation and the     *)
(* filtered synthetic-to-real experiment are never saved.                  *)
C7_FirstTwoModelsSaved ==
    /\ [][((ModelRebound /\ ns.model.id \in {1, 2}) => SavedTrained(ns.model))
            /\ SaveWritesParamsOnly]_vars
    /\ [](/\ DOMAIN files \subseteq ModelsPaths
          /\ \A q \in DOMAIN files : files[q].state_dict.id \in {0, 1, 2})

C7_Witness ==
    /\ cell = "optim3"
    /\ ns.model.id = 3
    /\ files["models/synthetic_model.pth"].state_dict.id = 1
    /\ files["models/synthetic_model.pth"].state_dict.params > 0
    /\ files["models/real_model.pth"].state_dict.id = 2
    /\ files["models/real_model.pth"].state_dict.params > 0

(* C8: every label given to a loss computation by a train or               *)
(* validate_epoch call is 0 or 1: the label arrays are binarized, or made  *)
(* of zeros and ones, before a Dataset is built from them, and stay so.    *)
C8_LabelsInRange ==
    /\ seen \subseteq {0, 1}
    /\ \A name \in DatasetNames \cap DOMAIN ns : Range(ns[name].labels) \subseteq {0, 1}

C8_Witness ==
    /\ cell = "done"
    /\ seen = {0, 1}
    /\ "good_synth_dataset" \in DOMAIN ns

====
